---- MODULE Spec2Model ----
(***************************************************************************)
(* Incremental Merkle tree (fasmat/merkle): the slice-based accumulator    *)
(* (Tree.Add, Tree.RootAndProof) and the proof validator (ValidateProof,   *)
(* parkingNodes, calcRoot, copyParkedNodes); beside them the linked-layer  *)
(* accumulator it replaced, calcRoot one loop turn at a time, the pooled   *)
(* hashers under concurrent calls and the file layer cache.                *)
(*                                                                         *)
(* Byte strings are modelled as sequences of integers.  A nil slice is the *)
(* empty sequence.  The node hasher is modelled as a collision-free term   *)
(* constructor over its concatenated inputs (SHA256 writes lChild, then    *)
(* rChild); every node is one hasher.Size() block.                         *)
(***************************************************************************)
EXTENDS Integers, Sequences, FiniteSets, TLC

\* ------------------------------------------------------------------ bounds
MaxLeaves == 4
MaxMinHeight == 4

\* raw leaf payloads handed to Add: one block each; <<0>> is the all-zero block
LeafValues == {<<0>>, <<1>>}

\* ------------------------------------------------------------- byte values
Nil == <<>>

\* make([]byte, hasher.Size()): the all-zero block
padding == <<0>>

\* copy(make([]byte, hasher.Size()), src): a nil source leaves the zero block
CopyNode(src) == IF src = Nil THEN padding ELSE src

\* ------------------------------------------------------------ arithmetic
RECURSIVE Pow2(_)
Pow2(h) == IF h = 0 THEN 1 ELSE 2 * Pow2(h - 1)

\* x >> h on uint64
Shr(x, h) == x \div Pow2(h)

\* x ^ 1
Xor1(x) == IF x % 2 = 0 THEN x + 1 ELSE x - 1

\* bits.Len64
RECURSIVE Len64(_)
Len64(x) == IF x = 0 THEN 0 ELSE 1 + Len64(x \div 2)


\* the keys in decreasing order
RECURSIVE SortedKeysDown(_)
SortedKeysDown(S) ==
    IF S = {} THEN <<>>
    ELSE LET m == CHOOSE x \in S : \A y \in S : x >= y
         IN <<m>> \o SortedKeysDown(S \ {m})

\* slices.Sort(slices.Collect(maps.Keys(m))): the keys in increasing order
RECURSIVE SortedKeys(_)
SortedKeys(S) ==
    IF S = {} THEN <<>>
    ELSE LET m == CHOOSE x \in S : \A y \in S : x <= y
         IN <<m>> \o SortedKeys(S \ {m})

\* s[1:]
Rest(s) == SubSeq(s, 2, Len(s))

\* ---------------------------------------------------------------- hashers
\* sha256Hasher.Hash: digest of lChild ++ rChild
HasherHash(lChild, rChild) == <<-1>> \o lChild \o rChild \o <<-2>>

\* valueLeafs.Hash: the data itself, the siblings are ignored
ValueLeafsHash(data, leftSiblings) == data

\* a concatenation that leaves every node out
ConcatNothing(nodes) == <<>>

\* a concatenation with the last node first
RECURSIVE ConcatReversed(_)
ConcatReversed(nodes) ==
    IF nodes = <<>> THEN <<>> ELSE ConcatReversed(Tail(nodes)) \o Head(nodes)

\* the bytes of the nodes one after the other, first node first
RECURSIVE Concat(_)
Concat(nodes) == IF nodes = <<>> THEN <<>> ELSE Head(nodes) \o Concat(Tail(nodes))

\* sequentialWorkHasher.Hash: digest of data ++ parkingNodes[0] ++ parkingNodes[1] ++ ...
SequentialWorkHash(data, parkingNodes) == <<-3>> \o data \o Concat(parkingNodes) \o <<-4>>

\* LeafHasher.Hash dispatched on the configured leaf hasher
LeafHasherHash(seq, data, leftSiblings) ==
    IF seq THEN SequentialWorkHash(data, leftSiblings)
    ELSE ValueLeafsHash(data, leftSiblings)

\* ------------------------------------------------- accumulator (Tree), Add
\* Builder.Build: the tree before the first Add; leavesToProve is the sorted key set
NewTreeState(S) ==
    [ parkedNodes   |-> <<>>,
      onProvingPath |-> <<>>,
      currentLeaf   |-> 0,
      leavesToProve |-> SortedKeys(S),
      leavesToProveNil |-> (S = {}),
      proof         |-> <<>> ]

\* Add, the default leaf path: curNode is a copy of the value
AddCopyValue(value) == value

\* Add with a sequential leaf hasher: the leaf is hashed with the nodes parked
\* when it arrives, lowest height first (empty slots contribute nothing)
AddSequentialLeaf(value, parked) == SequentialWorkHash(value, parked)

\* a merge that hands the proof the child on the proving path, not its sibling
AddEmitBug(parkingOnProvingPath, curOnProvingPath, parkingNode, curNode, prf) ==
    IF parkingOnProvingPath /\ ~curOnProvingPath THEN Append(prf, parkingNode)
    ELSE IF ~parkingOnProvingPath /\ curOnProvingPath THEN Append(prf, curNode)
    ELSE prf

\* Add, the switch on the two proving-path flags of a merge: which child goes to the proof
AddEmit(parkingOnProvingPath, curOnProvingPath, parkingNode, curNode, prf) ==
    IF parkingOnProvingPath /\ ~curOnProvingPath THEN Append(prf, curNode)
    ELSE IF ~parkingOnProvingPath /\ curOnProvingPath THEN Append(prf, parkingNode)
    ELSE prf

\* a parent flag that forgets the parked (left) child
AddParentFlagBug(parkingOnProvingPath, curOnProvingPath) == curOnProvingPath

\* Add, the flag of the merged parent
AddParentFlag(parkingOnProvingPath, curOnProvingPath) ==
    parkingOnProvingPath \/ curOnProvingPath

\* a merge with the arriving node as the left child
AddHashSwapped(parkingNode, curNode) == HasherHash(curNode, parkingNode)

\* Add, the parent of a merge: the parked node is the left child, the arriving
\* node the right child
AddHash(parkingNode, curNode) == HasherHash(parkingNode, curNode)

\* a merge that leaves the parked node in its slot
AddClearKeep(parkingNode) == parkingNode

\* Add, the slot after a merge: *parkingNode = nil
AddClear(parkingNode) == Nil

\* Add, the loop over the heights: park in the first empty slot, merge on the way
RECURSIVE AddLoop(_, _, _, _)
AddLoop(height, curNode, curOnProvingPath, t) ==
    LET grown == IF height = Len(t.parkedNodes)
                 THEN [t EXCEPT !.parkedNodes = Append(@, Nil),
                                !.onProvingPath = Append(@, FALSE)]
                 ELSE t
        parkingNode == grown.parkedNodes[height + 1]
        parkingOnProvingPath == grown.onProvingPath[height + 1]
    IN IF parkingNode = Nil
       THEN [grown EXCEPT !.parkedNodes[height + 1] = curNode,
                          !.onProvingPath[height + 1] = curOnProvingPath]
       ELSE AddLoop(height + 1,
                    AddHash(parkingNode, curNode),
                    AddParentFlag(parkingOnProvingPath, curOnProvingPath),
                    [grown EXCEPT !.proof = AddEmit(parkingOnProvingPath, curOnProvingPath,
                                                    parkingNode, curNode, @),
                                  !.parkedNodes[height + 1] = AddClear(parkingNode),
                                  !.onProvingPath[height + 1] = FALSE])

\* Add, the leaf node made of the value
AddLeafNode(t, seq, value) ==
    IF seq THEN AddSequentialLeaf(value, t.parkedNodes) ELSE AddCopyValue(value)

\* Tree.Add
TreeAdd(t, seq, value) ==
    LET curNode == AddLeafNode(t, seq, value)
        hit == Len(t.leavesToProve) > 0 /\ t.currentLeaf = t.leavesToProve[1]
        t1 == [t EXCEPT !.leavesToProve = IF hit THEN Rest(@) ELSE @,
                        !.currentLeaf = @ + 1]
    IN AddLoop(0, curNode, hit, t1)

\* ------------------------------------------- accumulator, RootAndProof
\* a finalisation that hands the proof the nil root itself, not a zeroed node
RootEmitBug(levelOnProvingPath, onProvingPath, root, parkedNode, prf) ==
    IF levelOnProvingPath /\ ~onProvingPath
    THEN [proof |-> Append(prf, root), onProvingPath |-> TRUE]
    ELSE IF onProvingPath /\ ~levelOnProvingPath
    THEN [proof |-> Append(prf, parkedNode), onProvingPath |-> onProvingPath]
    ELSE [proof |-> prf, onProvingPath |-> onProvingPath]

\* RootAndProof, the switch on the proving-path flags at one height: the new
\* proof and the new flag of the running root
RootEmit(levelOnProvingPath, onProvingPath, root, parkedNode, prf) ==
    IF levelOnProvingPath /\ ~onProvingPath
    THEN [proof |-> Append(prf, CopyNode(root)), onProvingPath |-> TRUE]
    ELSE IF onProvingPath /\ ~levelOnProvingPath
    THEN [proof |-> Append(prf, CopyNode(parkedNode)), onProvingPath |-> onProvingPath]
    ELSE [proof |-> prf, onProvingPath |-> onProvingPath]

\* a root step with the running root as the left child
RootStepSwapped(parkedNode, root) ==
    IF parkedNode # Nil /\ root # Nil THEN HasherHash(root, parkedNode)
    ELSE IF parkedNode # Nil THEN HasherHash(parkedNode, padding)
    ELSE IF root # Nil THEN HasherHash(root, padding)
    ELSE root

\* RootAndProof, the switch that moves the running root one height up
RootStep(parkedNode, root) ==
    IF parkedNode # Nil /\ root # Nil THEN HasherHash(parkedNode, root)
    ELSE IF parkedNode # Nil THEN HasherHash(parkedNode, padding)
    ELSE IF root # Nil THEN HasherHash(root, padding)
    ELSE root

\* RootAndProof, the loop over the parked nodes
RECURSIVE RootLoop(_, _, _, _, _)
RootLoop(height, root, onProvingPath, prf, t) ==
    IF height >= Len(t.parkedNodes) THEN [root |-> root, proof |-> prf]
    ELSE LET parkedNode == t.parkedNodes[height + 1]
         IN IF parkedNode # Nil /\ root = Nil /\ height = Len(t.parkedNodes) - 1
            THEN [root |-> parkedNode, proof |-> prf]
            ELSE LET e == RootEmit(t.onProvingPath[height + 1], onProvingPath,
                                   root, parkedNode, prf)
                 IN RootLoop(height + 1, RootStep(parkedNode, root),
                             e.onProvingPath, e.proof, t)

\* a padding loop that starts one height too low
PadStartBug(t) == Len(t.parkedNodes) - 1

\* RootAndProof, the first height the padding loop for minHeight starts from
PadStart(t) == Len(t.parkedNodes)

\* a padding loop that raises the root without recording the padding in the proof
RECURSIVE PadLoopBug(_, _, _, _)
PadLoopBug(i, minH, root, prf) ==
    IF i >= minH THEN [root |-> root, proof |-> prf]
    ELSE PadLoopBug(i + 1, minH, HasherHash(root, padding), prf)

\* RootAndProof, the padding loop for minHeight
RECURSIVE PadLoop(_, _, _, _)
PadLoop(i, minH, root, prf) ==
    IF i >= minH THEN [root |-> root, proof |-> prf]
    ELSE PadLoop(i + 1, minH, HasherHash(root, padding), Append(prf, padding))

\* RootAndProof, the proof it starts from: a copy of the recorded proof, or nil
\* when leavesToProve is nil
RootInitProof(t) == IF ~t.leavesToProveNil THEN t.proof ELSE <<>>

\* Tree.RootAndProof: the returned pair
RootAndProof(t, minH) ==
    LET r == RootLoop(0, Nil, FALSE, RootInitProof(t), t)
    IN PadLoop(PadStart(t), minH, r.root, r.proof)

\* a RootAndProof that appends to the recorded proof in place
RootAndProofTreeBug(t, minH) == [t EXCEPT !.proof = RootAndProof(t, minH).proof]

\* Tree.RootAndProof: the tree after the call (no field is assigned)
RootAndProofTree(t, minH) == t

\* ---------------------------------------- accumulator, linked-layer Tree
\* &layer{}
NewLayer == [parking |-> Nil, onProvingPath |-> FALSE]

\* Builder.Build of the linked-layer Tree: base is one empty layer
NewLinkedTree(S) ==
    [ layers        |-> <<NewLayer>>,
      currentLeaf   |-> 0,
      leavesToProve |-> SortedKeys(S),
      leavesToProveNil |-> (S = {}),
      proof         |-> <<>> ]

\* Add of the linked-layer Tree, the loop over the layers; the layer after
\* the last one is created when the last one merges
RECURSIVE LinkedAddLoop(_, _, _, _)
LinkedAddLoop(i, curNode, onProvingPath, t) ==
    LET curLayer == t.layers[i]
        leftChildOnPath == curLayer.onProvingPath
        rightChildOnPath == onProvingPath
        prf == IF leftChildOnPath /\ ~rightChildOnPath THEN Append(t.proof, curNode)
               ELSE IF ~leftChildOnPath /\ rightChildOnPath
               THEN Append(t.proof, curLayer.parking)
               ELSE t.proof
        cleared == [k \in 1 .. Len(t.layers) |-> IF k = i THEN NewLayer ELSE t.layers[k]]
    IN IF curLayer.parking = Nil
       THEN [t EXCEPT !.layers[i] = [parking |-> curNode, onProvingPath |-> onProvingPath]]
       ELSE LinkedAddLoop(i + 1,
                          HasherHash(curLayer.parking, curNode),
                          leftChildOnPath \/ rightChildOnPath,
                          [t EXCEPT !.proof = prf,
                                    !.layers = IF i = Len(t.layers)
                                               THEN Append(cleared, NewLayer)
                                               ELSE cleared])

\* Tree.Add of the linked-layer Tree
LinkedAdd(t, value) ==
    LET hit == Len(t.leavesToProve) > 0 /\ t.currentLeaf = t.leavesToProve[1]
        t1 == [t EXCEPT !.leavesToProve = IF hit THEN Rest(@) ELSE @,
                        !.currentLeaf = @ + 1]
    IN LinkedAddLoop(1, value, hit, t1)

\* a height counted after the test for the balanced tree
LinkedHeightLate(height) == height

\* RootAndProof of the linked-layer Tree: height++ at the top of the loop body
LinkedHeight(height) == height + 1

\* RootAndProof of the linked-layer Tree, the loop over the layers: the root,
\* the proof and the number of layers counted
RECURSIVE LinkedRootLoop(_, _, _, _, _, _)
LinkedRootLoop(i, height, root, onProvingPath, prf, t) ==
    IF i > Len(t.layers) THEN [root |-> root, proof |-> prf, height |-> height]
    ELSE LET curLayer == t.layers[i]
             emitRoot == curLayer.onProvingPath /\ ~onProvingPath
             emitParking == onProvingPath /\ ~curLayer.onProvingPath
             prf1 == IF emitRoot THEN Append(prf, CopyNode(root))
                     ELSE IF emitParking THEN Append(prf, CopyNode(curLayer.parking))
                     ELSE prf
             root1 == IF curLayer.parking # Nil /\ root # Nil
                      THEN HasherHash(curLayer.parking, root)
                      ELSE IF curLayer.parking # Nil
                      THEN HasherHash(curLayer.parking, padding)
                      ELSE IF root # Nil THEN HasherHash(root, padding)
                      ELSE root
         IN IF curLayer.parking # Nil /\ root = Nil /\ i = Len(t.layers)
            THEN [root |-> curLayer.parking, proof |-> prf, height |-> LinkedHeight(height)]
            ELSE LinkedRootLoop(i + 1, height + 1, root1,
                                onProvingPath \/ emitRoot, prf1, t)

\* Tree.RootAndProof of the linked-layer Tree: the returned pair
LinkedRootAndProof(t, minH) ==
    LET r == LinkedRootLoop(1, 0, Nil, FALSE, IF ~t.leavesToProveNil THEN t.proof ELSE <<>>, t)
    IN PadLoop(r.height, minH, r.root, r.proof)

\* --------------------------------------------------------------- validator
ErrNil == "nil"
ErrShortProof == "ErrShortProof"
ErrNoLeaves == "ErrNoLeaves"
\* a run-time panic (index or slice bound out of range)
Panic == "panic"

\* math.MaxUint64, the height bound of the top-level calcRoot call, cut to the
\* width of a 32-bit integer; the loop returns long before either value
MaxUint64 == 2147483647

\* make([][]byte, n): n empty nodes
RECURSIVE EmptyNodes(_)
EmptyNodes(n) == IF n = 0 THEN <<>> ELSE Append(EmptyNodes(n - 1), Nil)

\* initParkingNodes, the allocation: one slice of treeHeight empty nodes per index
RECURSIVE AllocParkedNodes(_, _)
AllocParkedNodes(indices, treeHeight) ==
    IF indices = <<>> THEN <<>>
    ELSE (Head(indices) :> EmptyNodes(treeHeight))
             @@ AllocParkedNodes(Tail(indices), treeHeight)

\* parkingNodes: walks the proof as calcRoot will and stores, for the first index
\* of each (sub-)tree, the proof nodes that are its left siblings
RECURSIVE parkingNodes(_, _, _, _, _)
RECURSIVE ParkingLoop(_, _, _, _, _, _, _, _, _, _)
parkingNodes(parked, maxHeight, indices, prf, fullLen) ==
    ParkingLoop(0, maxHeight, indices[1], indices[1], Rest(indices), prf, fullLen, 0, 0, parked)

ParkingLoop(height, maxHeight, curIndex, key, indices, prf, fullLen, proofIdx, siblingIdx, parked) ==
    IF height >= maxHeight
    THEN [proofIdx |-> proofIdx, siblingIdx |-> siblingIdx, err |-> ErrNil, parked |-> parked]
    ELSE LET failed(e) == [proofIdx |-> proofIdx, siblingIdx |-> siblingIdx,
                           err |-> e, parked |-> parked]
             inSlot == height < Len(parked[key])
         IN IF curIndex % 2 = 0 /\ siblingIdx < Len(indices)
               /\ Shr(indices[siblingIdx + 1], height) = Xor1(curIndex)
            THEN IF ~inSlot \/ proofIdx > Len(prf) THEN failed(Panic)
                 ELSE LET r == parkingNodes([parked EXCEPT ![key][height + 1] = Nil],
                                            height,
                                            SubSeq(indices, siblingIdx + 1, Len(indices)),
                                            SubSeq(prf, proofIdx + 1, Len(prf)),
                                            fullLen)
                      IN IF r.err # ErrNil
                         THEN [proofIdx |-> proofIdx, siblingIdx |-> siblingIdx,
                               err |-> r.err, parked |-> r.parked]
                         ELSE ParkingLoop(height + 1, maxHeight, curIndex \div 2, key,
                                          indices, prf, fullLen,
                                          proofIdx + r.proofIdx,
                                          siblingIdx + 1 + r.siblingIdx, r.parked)
            ELSE IF curIndex % 2 = 0
            THEN IF ~inSlot THEN failed(Panic)
                 ELSE ParkingLoop(height + 1, maxHeight, curIndex \div 2, key,
                                  indices, prf, fullLen, proofIdx + 1, siblingIdx,
                                  [parked EXCEPT ![key][height + 1] = Nil])
            ELSE IF proofIdx >= fullLen THEN failed(ErrShortProof)
                 ELSE IF ~inSlot \/ proofIdx >= Len(prf) THEN failed(Panic)
                 ELSE ParkingLoop(height + 1, maxHeight, curIndex \div 2, key,
                                  indices, prf, fullLen, proofIdx + 1, siblingIdx,
                                  [parked EXCEPT ![key][height + 1] = prf[proofIdx + 1]])

\* The memory a byte slice of the validator points into: the caller's root, a
\* value of the caller's leaves map, an element of the caller's proof, or a
\* buffer the validator allocated itself
InRoot == "root"
InLeaves == "leaves"
InProof == "proof"
Buf == "buf"
SiblingBuf == "siblingBuf"
ParkedBuf == "parkedNodes"

\* initParkingNodes
initParkingNodes(v) ==
    IF ~v.sequential THEN [err |-> ErrNil, v |-> v]
    ELSE LET treeHeight == Len64(v.indices[Len(v.indices)])
             r == parkingNodes(AllocParkedNodes(v.indices, treeHeight),
                               treeHeight, v.indices, v.proof, Len(v.proof))
         IN [err |-> r.err, v |-> [v EXCEPT !.parkedNodes = r.parked,
                                            !.written = @ \cup {ParkedBuf}]]

\* v.parkedNodes[idx]: a missing key (or the nil map) yields the nil slice
ParkedOf(v, idx) ==
    IF idx \in DOMAIN v.parkedNodes THEN v.parkedNodes[idx] ELSE <<>>

\* copyParkedNodes, the loop over the heights above `height`
RECURSIVE CopyHigher(_, _, _, _)
CopyHigher(i, curParkedNodes, key, parked) ==
    IF i >= Len(curParkedNodes) THEN [panic |-> FALSE, parked |-> parked]
    ELSE IF i >= Len(parked[key]) THEN [panic |-> TRUE, parked |-> parked]
    ELSE CopyHigher(i + 1, curParkedNodes, key,
                    [parked EXCEPT ![key][i + 1] = curParkedNodes[i + 1]])

\* a copyParkedNodes that does not inherit the parked nodes above `height`
copyParkedNodesBug(v, height, curNode, curParkedNodes) ==
    IF ~v.sequential THEN [panic |-> FALSE, v |-> v]
    ELSE LET key == v.indices[1]
         IN IF height >= Len(ParkedOf(v, key)) THEN [panic |-> TRUE, v |-> v]
            ELSE [panic |-> FALSE,
                  v |-> [v EXCEPT !.parkedNodes[key][height + 1] = curNode]]

\* copyParkedNodes: the current node becomes the parked node at `height` of the
\* next index, and the parked nodes above `height` are inherited
copyParkedNodes(v, height, curNode, curParkedNodes) ==
    IF ~v.sequential THEN [panic |-> FALSE, v |-> v]
    ELSE LET key == v.indices[1]
         IN IF height >= Len(ParkedOf(v, key)) THEN [panic |-> TRUE, v |-> v]
            ELSE LET c == CopyHigher(height + 1, curParkedNodes, key,
                                     [v.parkedNodes EXCEPT ![key][height + 1] = curNode])
                 IN [panic |-> c.panic, v |-> [v EXCEPT !.parkedNodes = c.parked,
                                                        !.written = @ \cup {ParkedBuf}]]

\* calcRoot, the children when the sibling is the root of the next index's subtree
SiblingChildren(curIndex, curNode, sibling) == <<curNode, sibling>>

\* a choice of children that always puts the proof node on the left
ProofChildrenBug(curIndex, curNode, proofNode) == <<proofNode, curNode>>

\* calcRoot, the children when the sibling comes from the proof
ProofChildren(curIndex, curNode, proofNode) ==
    IF curIndex % 2 = 0 THEN <<curNode, proofNode>> ELSE <<proofNode, curNode>>

\* calcRoot, the test that the next index lies in the sibling subtree
NextIsSibling(indices, height, curIndex) ==
    Len(indices) > 0 /\ Shr(indices[1], height) = Xor1(curIndex)

\* a calcRoot that accepts running out of proof below the root
CalcDoneBug(curIndex, curNode) == [node |-> curNode, err |-> ErrNil]

\* calcRoot, the result when proof and indices are both used up
CalcDone(curIndex, curNode) ==
    IF curIndex # 0 THEN [node |-> Nil, err |-> ErrShortProof]
    ELSE [node |-> curNode, err |-> ErrNil]

\* a hash step that writes its result over the left child
HashBufLeft(curBuf, lChild, rChild) == lChild

\* calcRoot, the buffer the hash of two children is written to: curNode, which
\* points into rootBuf; lChild and rChild are the memory the children point into
HashBuf(curBuf, lChild, rChild) == curBuf

\* calcRoot: the root of the (sub-)tree of at most maxHeight levels above the
\* first remaining index, written to rootBuf; consumes v.indices and v.proof
RECURSIVE calcRoot(_, _, _)
RECURSIVE CalcLoop(_, _, _, _, _, _, _)
calcRoot(v, maxHeight, rootBuf) ==
    LET curIndex == v.indices[1]
        curParkedNodes == ParkedOf(v, curIndex)
        curNode == LeafHasherHash(v.sequential, v.leaves[curIndex], curParkedNodes)
    IN CalcLoop(0, maxHeight, curIndex, curNode, curParkedNodes,
                [v EXCEPT !.indices = Rest(@), !.written = @ \cup {rootBuf}], rootBuf)

CalcLoop(height, maxHeight, curIndex, curNode, curParkedNodes, v, rootBuf) ==
    IF height >= maxHeight THEN [node |-> curNode, err |-> ErrNil, v |-> v]
    ELSE IF Len(v.proof) = 0 /\ Len(v.indices) = 0
    THEN LET d == CalcDone(curIndex, curNode)
         IN [node |-> d.node, err |-> d.err, v |-> v]
    ELSE IF NextIsSibling(v.indices, height, curIndex)
    THEN LET c == copyParkedNodes(v, height, curNode, curParkedNodes)
         IN IF c.panic THEN [node |-> Nil, err |-> Panic, v |-> c.v]
            ELSE LET s == calcRoot(c.v, height, SiblingBuf)
                 IN IF s.err # ErrNil THEN [node |-> Nil, err |-> s.err, v |-> s.v]
                    ELSE LET ch == SiblingChildren(curIndex, curNode, s.node)
                             mem == SiblingChildren(curIndex, rootBuf, SiblingBuf)
                         IN CalcLoop(height + 1, maxHeight, curIndex \div 2,
                                     HasherHash(ch[1], ch[2]), curParkedNodes,
                                     [s.v EXCEPT !.written =
                                          @ \cup {HashBuf(rootBuf, mem[1], mem[2])}],
                                     rootBuf)
    ELSE IF Len(v.proof) = 0 THEN [node |-> Nil, err |-> ErrShortProof, v |-> v]
    ELSE LET ch == ProofChildren(curIndex, curNode, v.proof[1])
             mem == ProofChildren(curIndex, rootBuf, InProof)
         IN CalcLoop(height + 1, maxHeight, curIndex \div 2,
                     HasherHash(ch[1], ch[2]), curParkedNodes,
                     [v EXCEPT !.proof = Rest(@),
                               !.written = @ \cup {HashBuf(rootBuf, mem[1], mem[2])}],
                     rootBuf)

\* an empty leaves map reported as a failed validation, without error
NoLeavesResultBug == [ok |-> FALSE, err |-> ErrNil]

\* ValidateProof, the result for an empty leaves map
NoLeavesResult == [ok |-> FALSE, err |-> ErrNoLeaves]

\* a comparison that accepts every calculated root
RootsEqualBug(root, calculatedRoot) == TRUE

\* a comparison of the lengths only
RootsEqualLen(root, calculatedRoot) == Len(root) = Len(calculatedRoot)

\* ValidateProof, the final comparison bytes.Equal(root, calculatedRoot)
RootsEqual(root, calculatedRoot) == root = calculatedRoot

\* ValidateProof, the whole call: the returned pair and the memory written to;
\* leaves is a function from the proven indices to their raw values
ValidateRun(root, leaves, prf, seq) ==
    IF DOMAIN leaves = {}
    THEN [ok |-> NoLeavesResult.ok, err |-> NoLeavesResult.err, written |-> {}]
    ELSE LET v0 == [ sequential  |-> seq,
                     leaves      |-> leaves,
                     indices     |-> SortedKeys(DOMAIN leaves),
                     parkedNodes |-> <<>>,
                     proof       |-> prf,
                     written     |-> {} ]
             i == initParkingNodes(v0)
         IN IF i.err # ErrNil THEN [ok |-> FALSE, err |-> i.err, written |-> i.v.written]
            ELSE LET c == calcRoot(i.v, MaxUint64, Buf)
                 IN IF c.err # ErrNil
                    THEN [ok |-> FALSE, err |-> c.err, written |-> c.v.written]
                    ELSE [ok |-> RootsEqual(root, c.node), err |-> ErrNil,
                          written |-> c.v.written]

\* ValidateProof: the returned pair
ValidateProof(root, leaves, prf, seq) ==
    LET r == ValidateRun(root, leaves, prf, seq) IN [ok |-> r.ok, err |-> r.err]

\* bytes of the caller that a write of the validator has replaced
Overwritten == <<-9>>

\* the caller's root, leaves and proof after a call that wrote to `written`
AfterValidate(args, written) ==
    [root   |-> IF InRoot \in written THEN Overwritten ELSE args.root,
     leaves |-> IF InLeaves \in written /\ DOMAIN args.leaves # {}
                THEN (CHOOSE i \in DOMAIN args.leaves : TRUE) :> Overwritten @@ args.leaves
                ELSE args.leaves,
     proof  |-> IF InProof \in written /\ Len(args.proof) > 0
                THEN <<Overwritten>> \o Rest(args.proof)
                ELSE args.proof]

\* ------------------------------------------------------------ state machine
VARIABLES
    calls,       \* the index sets handed to the Builder's With... methods, in call order
    toProve,     \* Builder.leavesToProve, the key set of the map
    minHeight,   \* Tree.minHeight
    sequential,  \* TRUE when tree and validator use SequentialWorkHasher
    tree,        \* the Tree fields parkedNodes, onProvingPath, currentLeaf, leavesToProve, proof
    added,       \* the raw values passed to Add so far, in order
    hashed,      \* the leaf nodes Add made of them (curNode before the loop)
    ret,         \* what the last RootAndProof since the last Add returned
    vres,        \* what the last ValidateProof call returned
    lastOp,      \* the last operation called since the last Add
    vin,         \* the caller's root, leaves and proof of the last ValidateProof call
    ctx,         \* the hash.Hash contexts a shared hasher has made: what each has been written
    pool,        \* the contexts lying in the hasher's sync.Pool
    goroutines,  \* the Hash call of each goroutine: position, context, arguments, digest
    disk,        \* the layer files of the cache directory: level -> records
    files,       \* fileLayerCache.files: level -> offset of the open file
    log,         \* the records appended through the cache made over the empty directory
    cret,        \* what the last call on the cache returned
    linked,      \* the linked-layer Tree fed the same calls as tree
    lret,        \* what the last RootAndProof of the linked-layer Tree returned
    frames,      \* the calcRoot calls in progress, the innermost last
    rest,        \* validator.indices and validator.proof, what is left of them
    retval       \* what a calcRoot call that just returned hands to its caller

hasherVars == <<ctx, pool, goroutines>>
cacheVars == <<disk, files, log, cret>>
linkedVars == <<linked, lret>>
stepVars == <<frames, rest, retval>>
treeVars == <<calls, toProve, minHeight, sequential, tree, added, hashed, ret, vres, lastOp, vin>>
vars == <<treeVars, hasherVars, cacheVars, linkedVars, stepVars>>

\* ------------------------------------------------ shared hashers (sync.Pool)
MaxGoroutines == 2

\* the goroutines that share one hasher; a pool never holds more contexts than
\* there were calls in flight at once
Goroutines == 1 .. MaxGoroutines
Contexts == 1 .. MaxGoroutines

\* a goroutine outside Hash
Idle == [pc |-> "idle", h |-> 0, chunks |-> <<>>, written |-> 0, digest |-> Nil]

\* Sha256() / SequentialWorkHasher(): an empty pool, nobody inside Hash
InitHasher ==
    /\ ctx = [c \in Contexts |-> <<>>]
    /\ pool = {}
    /\ goroutines = [g \in Goroutines |-> Idle]

\* ------------------------------------------------------- file layer cache
MaxRecords == 3

\* the layers used and the 32-byte records written, one block each
Levels == {0, 1}
Records == {<<1>>, <<2>>}

\* the size of one entry in bytes
entrySize == 32

\* make([]byte, 32)
ZeroRecord == <<0>>

ErrEOF == "EOF"

NoLog == [appended |-> [layer \in Levels |-> <<>>], reopened |-> FALSE, afterRead |-> FALSE]
NoCacheRet == [op |-> "none", layer |-> 0, index |-> 0, data |-> Nil, n |-> 0, err |-> ErrNil]

\* an empty directory and NewFileLayerCache over it: no file matches, files is empty
InitCache ==
    /\ disk = <<>>
    /\ files = <<>>
    /\ log = NoLog
    /\ cret = NoCacheRet

NoRet == [called |-> FALSE, root |-> Nil, proof |-> <<>>]
NoRes == [ok |-> FALSE, err |-> "none"]
NoIn == [root |-> Nil, leaves |-> <<>>, proof |-> <<>>]

\* no calcRoot call in progress
NoRest == [indices |-> <<>>, proof |-> <<>>]
NoRetval == [set |-> FALSE, node |-> Nil, err |-> ErrNil]

InitStep ==
    /\ frames = <<>>
    /\ rest = NoRest
    /\ retval = NoRetval

\* no linked-layer Tree is built beside the slice-based one
InitLinked ==
    /\ linked = NewLinkedTree({})
    /\ lret = NoRet

\* the arguments of a ValidateProof call
ValidateArgs(root, leaves, prf) == [root |-> root, leaves |-> leaves, proof |-> prf]

\* the leaves map a caller holds for the proven leaves added so far
RECURSIVE LeavesAt(_, _)
LeavesAt(indices, values) ==
    IF indices = <<>> THEN <<>>
    ELSE (Head(indices) :> values[Head(indices) + 1]) @@ LeavesAt(Tail(indices), values)

ProvenLeaves == LeavesAt(SortedKeys({j \in toProve : j < tree.currentLeaf}), added)

\* s[:len(s)-1]
DropLast(s) == SubSeq(s, 1, Len(s) - 1)

Init ==
    /\ toProve \in SUBSET (0 .. MaxLeaves - 1)
    /\ calls = <<toProve>>
    /\ minHeight \in 0 .. MaxMinHeight
    /\ sequential \in BOOLEAN
    /\ tree = NewTreeState(toProve)
    /\ added = <<>>
    /\ hashed = <<>>
    /\ ret = NoRet
    /\ vres = NoRes
    /\ lastOp = "Build"
    /\ vin = NoIn
    /\ InitHasher
    /\ InitCache
    /\ InitStep
    /\ InitLinked

\* a call ValidateProof(root, leaves, prf): what it returns, and the caller's
\* arguments as they are after the call
ValidateCall(root, leaves, prf) ==
    LET r == ValidateRun(root, leaves, prf, sequential)
    IN /\ vin' = AfterValidate(ValidateArgs(root, leaves, prf), r.written)
       /\ vres' = [ok |-> r.ok, err |-> r.err]

\* tree.Add(value)
Add(value) ==
    /\ tree.currentLeaf < MaxLeaves
    /\ tree' = TreeAdd(tree, sequential, value)
    /\ added' = Append(added, value)
    /\ hashed' = Append(hashed, AddLeafNode(tree, sequential, value))
    /\ ret' = NoRet
    /\ vres' = NoRes
    /\ lastOp' = "Add"
    /\ vin' = NoIn
    /\ UNCHANGED <<calls, toProve, minHeight, sequential>>
    /\ UNCHANGED <<hasherVars, cacheVars, linkedVars, stepVars>>

\* root, proof := tree.RootAndProof(), after at least one Add
CallRootAndProof ==
    /\ tree.currentLeaf >= 1
    /\ LET r == RootAndProof(tree, minHeight)
       IN ret' = [called |-> TRUE, root |-> r.root, proof |-> r.proof]
    /\ tree' = RootAndProofTree(tree, minHeight)
    /\ vres' = NoRes
    /\ lastOp' = IF ret.called THEN "RootAndProofAgain" ELSE "RootAndProof"
    /\ vin' = NoIn
    /\ UNCHANGED <<calls, toProve, minHeight, sequential, added, hashed>>
    /\ UNCHANGED <<hasherVars, cacheVars, linkedVars, stepVars>>

\* ValidateProof(root, leaves, proof) with the proven leaves added so far
CallValidateProof ==
    /\ ret.called
    /\ ValidateCall(ret.root, ProvenLeaves, ret.proof)
    /\ lastOp' = "ValidateProof"
    /\ UNCHANGED <<calls, toProve, minHeight, sequential, tree, added, hashed, ret>>
    /\ UNCHANGED <<hasherVars, cacheVars, linkedVars, stepVars>>

\* ValidateProof(root, leaves, proof[:len(proof)-1])
CallValidateShort ==
    /\ ret.called
    /\ Len(ret.proof) > 0
    /\ ValidateCall(ret.root, ProvenLeaves, DropLast(ret.proof))
    /\ lastOp' = "ValidateShort"
    /\ UNCHANGED <<calls, toProve, minHeight, sequential, tree, added, hashed, ret>>
    /\ UNCHANGED <<hasherVars, cacheVars, linkedVars, stepVars>>

Next ==
    \/ \E value \in LeafValues : Add(value)
    \/ CallRootAndProof
    \/ CallValidateProof
    \/ CallValidateShort

Spec == Init /\ [][Next]_vars

\* ------------------------------------------------------------- the Builder
MaxCalls == 3

\* the maps a caller hands to WithLeavesToProve
GivenSets == {S \in SUBSET (0 .. MaxLeaves - 1) : Cardinality(S) <= 2}

\* TreeBuilder(): an empty leavesToProve map
InitBuilder ==
    /\ toProve = {}
    /\ calls = <<>>
    /\ minHeight = 0
    /\ sequential = FALSE
    /\ tree = NewTreeState({})
    /\ added = <<>>
    /\ hashed = <<>>
    /\ ret = NoRet
    /\ vres = NoRes
    /\ lastOp = "TreeBuilder"
    /\ vin = NoIn
    /\ InitHasher
    /\ InitCache
    /\ InitStep
    /\ InitLinked

\* tb.WithLeafToProve(leaf)
WithLeafToProve(leaf) ==
    /\ Len(calls) < MaxCalls
    /\ toProve' = toProve \cup {leaf}
    /\ calls' = Append(calls, {leaf})
    /\ lastOp' = "WithLeafToProve"
    /\ UNCHANGED <<minHeight, sequential, tree, added, hashed, ret, vres, vin>>
    /\ UNCHANGED <<hasherVars, cacheVars, linkedVars, stepVars>>

\* tb.WithLeavesToProve(leaves): maps.Copy into the Builder's map
WithLeavesToProve(leaves) ==
    /\ Len(calls) < MaxCalls
    /\ toProve' = toProve \cup leaves
    /\ calls' = Append(calls, leaves)
    /\ lastOp' = "WithLeavesToProve"
    /\ UNCHANGED <<minHeight, sequential, tree, added, hashed, ret, vres, vin>>
    /\ UNCHANGED <<hasherVars, cacheVars, linkedVars, stepVars>>

\* tb.Build()
Build ==
    /\ tree' = NewTreeState(toProve)
    /\ lastOp' = "Build"
    /\ UNCHANGED <<calls, toProve, minHeight, sequential, added, hashed, ret, vres, vin>>
    /\ UNCHANGED <<hasherVars, cacheVars, linkedVars, stepVars>>

NextBuilder ==
    \/ \E leaf \in 0 .. MaxLeaves - 1 : WithLeafToProve(leaf)
    \/ \E leaves \in GivenSets : WithLeavesToProve(leaves)
    \/ Build

SpecBuilder == InitBuilder /\ [][NextBuilder]_vars

\* ------------------------------------------ validation of arbitrary input
MaxIndex == 4
MaxProofLen == 3

\* every leaves map over the indices 0 .. MaxIndex, the empty map included
ArbitraryLeaves == UNION {[I -> LeafValues] : I \in SUBSET (0 .. MaxIndex)}

\* every proof of at most MaxProofLen nodes
ArbitraryProofs == UNION {[1 .. n -> {padding, <<1>>}] : n \in 0 .. MaxProofLen}

InitArbitrary ==
    /\ vin \in {ValidateArgs(root, leaves, prf) :
                    root \in {padding, <<1>>}, leaves \in ArbitraryLeaves,
                    prf \in ArbitraryProofs}
    /\ sequential \in BOOLEAN
    /\ toProve = {}
    /\ calls = <<>>
    /\ minHeight = 0
    /\ tree = NewTreeState({})
    /\ added = <<>>
    /\ hashed = <<>>
    /\ ret = NoRet
    /\ vres = NoRes
    /\ lastOp = "Build"
    /\ InitHasher
    /\ InitCache
    /\ InitStep
    /\ InitLinked

\* ValidateProof(root, leaves, proof, opts...) on the given input
CallValidateArbitrary ==
    /\ vres = NoRes
    /\ ValidateCall(vin.root, vin.leaves, vin.proof)
    /\ lastOp' = "ValidateArbitrary"
    /\ UNCHANGED <<calls, toProve, minHeight, sequential, tree, added, hashed, ret>>
    /\ UNCHANGED <<hasherVars, cacheVars, linkedVars, stepVars>>

NextArbitrary == CallValidateArbitrary

SpecArbitrary == InitArbitrary /\ [][NextArbitrary]_vars

\* ------------------------------- validation of altered proofs, roots, leaves
\* Each pair returned by RootAndProof is validated once, with one alteration.
\* node values a caller can put into a proof or pass as a root
ExtraNodes == {padding, HasherHash(<<0>>, <<1>>)}

\* one or two trailing elements
ExtraTails == {<<padding>>, <<HasherHash(<<0>>, <<1>>), padding>>}

\* ValidateProof(root, leaves, append(proof, extra...))
CallValidateLong(extra) ==
    /\ ret.called /\ vres = NoRes
    /\ ValidateCall(ret.root, ProvenLeaves, ret.proof \o extra)
    /\ lastOp' = "ValidateLong"
    /\ UNCHANGED <<calls, toProve, minHeight, sequential, tree, added, hashed, ret>>
    /\ UNCHANGED <<hasherVars, cacheVars, linkedVars, stepVars>>

\* ValidateProof with the root replaced by another value
CallValidateOtherRoot(root) ==
    /\ ret.called /\ vres = NoRes
    /\ root # ret.root
    /\ ValidateCall(root, ProvenLeaves, ret.proof)
    /\ lastOp' = "ValidateOtherRoot"
    /\ UNCHANGED <<calls, toProve, minHeight, sequential, tree, added, hashed, ret>>
    /\ UNCHANGED <<hasherVars, cacheVars, linkedVars, stepVars>>

\* ValidateProof with the value of one supplied leaf replaced by another value
CallValidateOtherLeaf(i, value) ==
    /\ ret.called /\ vres = NoRes
    /\ i \in DOMAIN ProvenLeaves
    /\ value # ProvenLeaves[i]
    /\ LET leaves == (i :> value) @@ ProvenLeaves
       IN ValidateCall(ret.root, leaves, ret.proof)
    /\ lastOp' = "ValidateOtherLeaf"
    /\ UNCHANGED <<calls, toProve, minHeight, sequential, tree, added, hashed, ret>>
    /\ UNCHANGED <<hasherVars, cacheVars, linkedVars, stepVars>>

\* ValidateProof with one proof element replaced by another value
CallValidateOtherProof(j, node) ==
    /\ ret.called /\ vres = NoRes
    /\ j \in 1 .. Len(ret.proof)
    /\ node # ret.proof[j]
    /\ LET prf == SubSeq(ret.proof, 1, j - 1) \o <<node>>
                      \o SubSeq(ret.proof, j + 1, Len(ret.proof))
       IN ValidateCall(ret.root, ProvenLeaves, prf)
    /\ lastOp' = "ValidateOtherProof"
    /\ UNCHANGED <<calls, toProve, minHeight, sequential, tree, added, hashed, ret>>
    /\ UNCHANGED <<hasherVars, cacheVars, linkedVars, stepVars>>

\* trees without a minimum height and with the largest one
InitAltered == Init /\ minHeight \in {0, MaxMinHeight}

NextAltered ==
    \/ \E value \in LeafValues : Add(value)
    \/ CallRootAndProof
    \/ \E extra \in ExtraTails : CallValidateLong(extra)
    \/ \E root \in ExtraNodes : CallValidateOtherRoot(root)
    \/ \E i \in 0 .. MaxLeaves - 1, value \in LeafValues : CallValidateOtherLeaf(i, value)
    \/ \E j \in 1 .. MaxLeaves + MaxMinHeight, node \in ExtraNodes : CallValidateOtherProof(j, node)

SpecAltered == InitAltered /\ [][NextAltered]_vars

\* ------------------------------- concurrent Hash calls on one shared hasher
\* no tree is built and nothing is validated
InitNoTree ==
    /\ toProve = {}
    /\ calls = <<>>
    /\ minHeight = 0
    /\ tree = NewTreeState({})
    /\ added = <<>>
    /\ hashed = <<>>
    /\ ret = NoRet
    /\ vres = NoRes
    /\ lastOp = "Build"
    /\ vin = NoIn

\* hash.Hash.Write(p): the bytes are added to what the context has been written
HashWrite(state, p) == state \o p

\* hash.Hash.Sum(buf[:0]): the digest of what the context has been written
HashSum(seq, state) ==
    IF seq THEN <<-3>> \o state \o <<-4>> ELSE <<-1>> \o state \o <<-2>>

\* a Reset that leaves the context as it is
HashResetKeep(state) == state

\* hash.Hash.Reset(): the context is as sha256.New() made it
HashReset(state) == <<>>

\* the byte slices one Hash call writes, in order: lChild, rChild for
\* sha256Hasher; data, parkingNodes[0], parkingNodes[1], ... for sequentialWorkHasher
HashCalls(seq) ==
    IF seq
    THEN {<<<<0>>>>, <<<<1>>, <<0>>, <<1>>>>}
    ELSE {<<<<0>>, <<1>>>>, <<<<1>>, <<0>>>>}

\* a goroutine between pool.Get and the deferred pool.Put
InFlight(g) == goroutines[g].pc \in {"Write", "Sum", "Reset", "Put"}

\* the contexts held by the calls in flight
Held == {goroutines[g].h : g \in {x \in Goroutines : InFlight(x)}}

\* h := s.pool.Get().(hash.Hash): a context taken out of the pool, or a new one
\* from New (the pool may hand out a new one at any time)
PoolGet(g, chunks) ==
    /\ goroutines[g].pc \in {"idle", "returned"}
    /\ \E c \in Contexts \ Held :
          /\ ctx' = IF c \in pool THEN ctx ELSE [ctx EXCEPT ![c] = <<>>]
          /\ pool' = pool \ {c}
          /\ goroutines' = [goroutines EXCEPT ![g] =
                 [pc |-> "Write", h |-> c, chunks |-> chunks, written |-> 0, digest |-> Nil]]
    /\ UNCHANGED <<treeVars, cacheVars, linkedVars, stepVars>>

\* h.Write(lChild); h.Write(rChild) / h.Write(data); h.Write(parkingNodes[i]): one call
Write(g) ==
    LET c == goroutines[g]
    IN /\ c.pc = "Write"
       /\ ctx' = [ctx EXCEPT ![c.h] = HashWrite(@, c.chunks[c.written + 1])]
       /\ goroutines' = [goroutines EXCEPT ![g].written = @ + 1,
                             ![g].pc = IF c.written + 1 = Len(c.chunks) THEN "Sum" ELSE "Write"]
       /\ UNCHANGED pool
       /\ UNCHANGED <<treeVars, cacheVars, linkedVars, stepVars>>

\* return h.Sum(buf[:0]): the result is computed before the deferred calls run
Sum(g) ==
    LET c == goroutines[g]
    IN /\ c.pc = "Sum"
       /\ goroutines' = [goroutines EXCEPT ![g].digest = HashSum(sequential, ctx[c.h]),
                                           ![g].pc = "Reset"]
       /\ UNCHANGED <<ctx, pool>>
       /\ UNCHANGED <<treeVars, cacheVars, linkedVars, stepVars>>

\* defer h.Reset(): deferred last, so it runs first
Reset(g) ==
    LET c == goroutines[g]
    IN /\ c.pc = "Reset"
       /\ ctx' = [ctx EXCEPT ![c.h] = HashReset(@)]
       /\ goroutines' = [goroutines EXCEPT ![g].pc = "Put"]
       /\ UNCHANGED pool
       /\ UNCHANGED <<treeVars, cacheVars, linkedVars, stepVars>>

\* defer s.pool.Put(h), then the call returns
PoolPut(g) ==
    LET c == goroutines[g]
    IN /\ c.pc = "Put"
       /\ pool' = pool \cup {c.h}
       /\ goroutines' = [goroutines EXCEPT ![g] = [Idle EXCEPT !.pc = "returned", !.h = c.h]]
       /\ UNCHANGED ctx
       /\ UNCHANGED <<treeVars, cacheVars, linkedVars, stepVars>>

\* sync.Pool drops a pooled context (garbage collection)
PoolDrop(c) ==
    /\ c \in pool
    /\ pool' = pool \ {c}
    /\ UNCHANGED <<ctx, goroutines>>
    /\ UNCHANGED <<treeVars, cacheVars, linkedVars, stepVars>>

InitSharedHasher ==
    /\ InitNoTree
    /\ sequential \in BOOLEAN
    /\ InitHasher
    /\ InitCache
    /\ InitStep
    /\ InitLinked

NextSharedHasher ==
    \/ \E g \in Goroutines : \E chunks \in HashCalls(sequential) : PoolGet(g, chunks)
    \/ \E g \in Goroutines : Write(g)
    \/ \E g \in Goroutines : Sum(g)
    \/ \E g \in Goroutines : Reset(g)
    \/ \E g \in Goroutines : PoolPut(g)
    \/ \E c \in Contexts : PoolDrop(c)

SpecSharedHasher == InitSharedHasher /\ [][NextSharedHasher]_vars

\* ------------------------------------------------------- file layer cache
\* the records of a layer file, none when the file does not exist
FileRecords(dsk, layer) == IF layer \in DOMAIN dsk THEN dsk[layer] ELSE <<>>

\* info.Size()
FileSize(recs) == Len(recs) * entrySize

\* fileLayerCache.openFile: the handle in files, or the file opened with
\* O_RDWR|O_CREATE (created empty when missing), its offset at 0
openFile(fs, dsk, layer) ==
    IF layer \in DOMAIN fs THEN [files |-> fs, disk |-> dsk]
    ELSE [files |-> (layer :> 0) @@ fs,
          disk |-> IF layer \in DOMAIN dsk THEN dsk ELSE (layer :> <<>>) @@ dsk]

\* file.Write(data) of one entry at the file offset: the entry there is
\* replaced, or the file grows when the offset is its end
FileWrite(recs, offset, data) ==
    LET i == offset \div entrySize
    IN IF i >= Len(recs) THEN Append(recs, data)
       ELSE [k \in 1 .. Len(recs) |-> IF k = i + 1 THEN data ELSE recs[k]]

\* file.ReadAt(data, int64(index*32)) into make([]byte, 32)
FileReadAt(recs, index) ==
    IF index * entrySize + entrySize <= FileSize(recs)
    THEN [data |-> recs[index + 1], err |-> ErrNil]
    ELSE [data |-> ZeroRecord, err |-> ErrEOF]

\* a read that leaves the file offset behind the entry it read
ReadAtNoSeek(offset, index, size) == (index + 1) * entrySize

\* the file offset after a ReadAt without error: file.ReadAt leaves it alone,
\* file.Seek(0, io.SeekEnd) moves it to the end
ReadAtSeek(offset, index, size) == size

\* what ReadAt(layer, index) returns on a cache with these files
ReadAtResult(dsk, layer, index) == FileReadAt(FileRecords(dsk, layer), index)

\* what Len(layer) returns on a cache with these files
LenResult(dsk, layer) == FileSize(FileRecords(dsk, layer)) \div entrySize

\* NewFileLayerCache(path) over the directory as it is: every layer file is
\* opened with O_RDWR|O_CREATE, its offset at 0
NewFileLayerCache ==
    /\ files' = [layer \in DOMAIN disk |-> 0]
    /\ log' = [NoLog EXCEPT !.reopened = TRUE]
    /\ cret' = [NoCacheRet EXCEPT !.op = "NewFileLayerCache"]
    /\ UNCHANGED disk
    /\ UNCHANGED <<treeVars, hasherVars, linkedVars, stepVars>>

\* cache.Append(layer, data)
CacheAppend(layer, data) ==
    LET o == openFile(files, disk, layer)
        recs == o.disk[layer]
    IN /\ Len(recs) < MaxRecords
       /\ disk' = [o.disk EXCEPT ![layer] = FileWrite(recs, o.files[layer], data)]
       /\ files' = [o.files EXCEPT ![layer] = @ + entrySize]
       /\ log' = IF log.reopened THEN log
                 ELSE [log EXCEPT !.appended[layer] = Append(@, data),
                                  !.afterRead = @ \/ (cret.op = "ReadAt" /\ cret.layer = layer
                                                      /\ cret.err = ErrNil)]
       /\ cret' = [NoCacheRet EXCEPT !.op = "Append", !.layer = layer, !.data = data]
       /\ UNCHANGED <<treeVars, hasherVars, linkedVars, stepVars>>

\* cache.ReadAt(layer, index)
CacheReadAt(layer, index) ==
    LET o == openFile(files, disk, layer)
        recs == o.disk[layer]
        r == FileReadAt(recs, index)
    IN /\ disk' = o.disk
       /\ files' = IF r.err = ErrNil
                   THEN [o.files EXCEPT ![layer] = ReadAtSeek(@, index, FileSize(recs))]
                   ELSE o.files
       /\ cret' = [NoCacheRet EXCEPT !.op = "ReadAt", !.layer = layer, !.index = index,
                                     !.data = r.data, !.err = r.err]
       /\ UNCHANGED log
       /\ UNCHANGED <<treeVars, hasherVars, linkedVars, stepVars>>

\* cache.Len(layer)
CacheLen(layer) ==
    LET o == openFile(files, disk, layer)
        size == FileSize(o.disk[layer])
    IN /\ disk' = o.disk
       /\ files' = o.files
       /\ cret' = IF size % entrySize # 0
                  THEN [NoCacheRet EXCEPT !.op = "Len", !.layer = layer, !.err = "size"]
                  ELSE [NoCacheRet EXCEPT !.op = "Len", !.layer = layer,
                                          !.n = size \div entrySize]
       /\ UNCHANGED log
       /\ UNCHANGED <<treeVars, hasherVars, linkedVars, stepVars>>

InitFileCache ==
    /\ InitNoTree
    /\ sequential = FALSE
    /\ InitHasher
    /\ InitCache
    /\ InitStep
    /\ InitLinked

NextFileCache ==
    \/ NewFileLayerCache
    \/ \E layer \in Levels : \E data \in Records : CacheAppend(layer, data)
    \/ \E layer \in Levels : \E index \in 0 .. MaxRecords : CacheReadAt(layer, index)
    \/ \E layer \in Levels : CacheLen(layer)

SpecFileCache == InitFileCache /\ [][NextFileCache]_vars

\* ------------------------- the linked-layer Tree beside the slice-based Tree
\* both trees are built by builders given the same minimum height and leaves to prove
InitBothTrees ==
    /\ toProve \in SUBSET (0 .. MaxLeaves - 1)
    /\ calls = <<toProve>>
    /\ minHeight \in 0 .. MaxMinHeight
    /\ sequential = FALSE
    /\ tree = NewTreeState(toProve)
    /\ linked = NewLinkedTree(toProve)
    /\ added = <<>>
    /\ hashed = <<>>
    /\ ret = NoRet
    /\ lret = NoRet
    /\ vres = NoRes
    /\ lastOp = "Build"
    /\ vin = NoIn
    /\ InitHasher
    /\ InitCache
    /\ InitStep

\* Add(value) on both trees
AddBoth(value) ==
    /\ tree.currentLeaf < MaxLeaves
    /\ tree' = TreeAdd(tree, sequential, value)
    /\ linked' = LinkedAdd(linked, value)
    /\ added' = Append(added, value)
    /\ hashed' = Append(hashed, AddLeafNode(tree, sequential, value))
    /\ ret' = NoRet
    /\ lret' = NoRet
    /\ lastOp' = "Add"
    /\ UNCHANGED <<calls, toProve, minHeight, sequential, vres, vin>>
    /\ UNCHANGED <<hasherVars, cacheVars, stepVars>>

\* RootAndProof() on both trees
RootAndProofBoth ==
    /\ LET r == RootAndProof(tree, minHeight)
       IN ret' = [called |-> TRUE, root |-> r.root, proof |-> r.proof]
    /\ LET r == LinkedRootAndProof(linked, minHeight)
       IN lret' = [called |-> TRUE, root |-> r.root, proof |-> r.proof]
    /\ tree' = RootAndProofTree(tree, minHeight)
    /\ linked' = linked
    /\ lastOp' = IF ret.called THEN "RootAndProofAgain" ELSE "RootAndProof"
    /\ UNCHANGED <<calls, toProve, minHeight, sequential, added, hashed, vres, vin>>
    /\ UNCHANGED <<hasherVars, cacheVars, stepVars>>

NextBothTrees ==
    \/ \E value \in LeafValues : AddBoth(value)
    \/ RootAndProofBoth

SpecBothTrees == InitBothTrees /\ [][NextBothTrees]_vars

\* ------------------------------------ ValidateProof, one statement at a time
\* the leaves maps handed in: every non-empty index set, and the empty map
StepLeaves ==
    {[i \in I |-> IF i % 2 = 0 THEN <<1>> ELSE padding] : I \in SUBSET (0 .. MaxIndex)}

InitCalcRoot ==
    /\ vin \in {ValidateArgs(<<1>>, leaves, prf) :
                    leaves \in StepLeaves, prf \in ArbitraryProofs}
    /\ sequential = FALSE
    /\ toProve = {}
    /\ calls = <<>>
    /\ minHeight = 0
    /\ tree = NewTreeState({})
    /\ added = <<>>
    /\ hashed = <<>>
    /\ ret = NoRet
    /\ vres = NoRes
    /\ lastOp = "Build"
    /\ InitHasher
    /\ InitCache
    /\ InitStep
    /\ InitLinked

\* the innermost calcRoot call
Top == frames[Len(frames)]

\* return from the innermost call
Pop == SubSeq(frames, 1, Len(frames) - 1)

\* calcRoot, the statements before the loop: the first remaining index is
\* taken and its leaf becomes the current node
EnterCalcRoot(indices, leaves, maxHeight) ==
    [maxHeight |-> maxHeight, height |-> 0, curIndex |-> indices[1],
     curNode |-> LeafHasherHash(FALSE, leaves[indices[1]], <<>>)]

\* a sibling combined after a test of the parity of the current index
SiblingChildrenChecked(curIndex, curNode, sibling) ==
    IF curIndex % 2 = 0 THEN <<curNode, sibling>> ELSE <<sibling, curNode>>

\* a proof node that is read but stays at the head of the proof
KeepProofNode(prf) == prf

\* calcRoot, v.proof = v.proof[1:] after the head of the proof was used
UseProofNode(prf) == Rest(prf)

\* calcRoot, the end of the loop body: curIndex >>= 1, the children hashed
\* into curNode, height counted up
MoveUp(f, children) ==
    [f EXCEPT !.height = @ + 1, !.curIndex = @ \div 2,
              !.curNode = HasherHash(children[1], children[2])]

\* ValidateProof up to the call v.calcRoot(math.MaxUint64, buf)
StartValidateProof ==
    /\ vres = NoRes /\ frames = <<>> /\ ~retval.set
    /\ IF DOMAIN vin.leaves = {}
       THEN /\ vres' = NoLeavesResult
            /\ lastOp' = "ValidateProof"
            /\ UNCHANGED <<frames, rest>>
       ELSE LET indices == SortedKeys(DOMAIN vin.leaves)
            IN /\ frames' = <<EnterCalcRoot(indices, vin.leaves, MaxUint64)>>
               /\ rest' = [indices |-> Rest(indices), proof |-> vin.proof]
               /\ lastOp' = "calcRoot"
               /\ UNCHANGED vres
    /\ UNCHANGED retval
    /\ UNCHANGED <<calls, toProve, minHeight, sequential, tree, added, hashed, ret, vin>>
    /\ UNCHANGED <<hasherVars, cacheVars, linkedVars>>

\* calcRoot, one turn of the loop in the innermost call: the loop ends, or the
\* call returns in the first case, or a nested call starts, or a proof node is used
CalcRootIteration ==
    /\ frames # <<>> /\ ~retval.set
    /\ LET f == Top
       IN IF f.height >= f.maxHeight
          THEN /\ frames' = Pop
               /\ retval' = [set |-> TRUE, node |-> f.curNode, err |-> ErrNil]
               /\ UNCHANGED rest
          ELSE IF Len(rest.proof) = 0 /\ Len(rest.indices) = 0
          THEN /\ frames' = Pop
               /\ retval' = [set |-> TRUE, node |-> CalcDone(f.curIndex, f.curNode).node,
                             err |-> CalcDone(f.curIndex, f.curNode).err]
               /\ UNCHANGED rest
          ELSE IF NextIsSibling(rest.indices, f.height, f.curIndex)
          THEN /\ frames' = Append(frames, EnterCalcRoot(rest.indices, vin.leaves, f.height))
               /\ rest' = [rest EXCEPT !.indices = Rest(@)]
               /\ UNCHANGED retval
          ELSE IF Len(rest.proof) = 0
          THEN /\ frames' = Pop
               /\ retval' = [set |-> TRUE, node |-> Nil, err |-> ErrShortProof]
               /\ UNCHANGED rest
          ELSE /\ frames' = Append(Pop, MoveUp(f, ProofChildren(f.curIndex, f.curNode,
                                                                 rest.proof[1])))
               /\ rest' = [rest EXCEPT !.proof = UseProofNode(@)]
               /\ UNCHANGED retval
    /\ UNCHANGED <<treeVars, hasherVars, cacheVars, linkedVars>>

\* calcRoot after the nested call returned: the error is passed on, or the
\* sibling is combined with the current node
CalcRootResume ==
    /\ frames # <<>> /\ retval.set
    /\ IF retval.err # ErrNil
       THEN /\ frames' = Pop
            /\ retval' = [retval EXCEPT !.node = Nil]
       ELSE /\ frames' = Append(Pop, MoveUp(Top, SiblingChildren(Top.curIndex, Top.curNode,
                                                                  retval.node)))
            /\ retval' = NoRetval
    /\ UNCHANGED rest
    /\ UNCHANGED <<treeVars, hasherVars, cacheVars, linkedVars>>

\* ValidateProof after the outermost calcRoot returned
ReturnValidateProof ==
    /\ frames = <<>> /\ retval.set
    /\ vres' = IF retval.err # ErrNil THEN [ok |-> FALSE, err |-> retval.err]
               ELSE [ok |-> RootsEqual(vin.root, retval.node), err |-> ErrNil]
    /\ retval' = NoRetval
    /\ lastOp' = "ValidateProof"
    /\ UNCHANGED <<frames, rest>>
    /\ UNCHANGED <<calls, toProve, minHeight, sequential, tree, added, hashed, ret, vin>>
    /\ UNCHANGED <<hasherVars, cacheVars, linkedVars>>

NextCalcRoot ==
    \/ StartValidateProof
    \/ CalcRootIteration
    \/ CalcRootResume
    \/ ReturnValidateProof

SpecCalcRoot == InitCalcRoot /\ [][NextCalcRoot]_vars

\* a call that has started runs on: the caller of ValidateProof waits for it
SpecCalcRootFair == SpecCalcRoot /\ WF_vars(NextCalcRoot)

\* ------------------------------------------------------ reference notions
\* number of leaves added
NumLeaves == tree.currentLeaf

\* ceil(log2 n) for n >= 1
CeilLog2(n) == Len64(n - 1)

IsPow2(n) == n >= 1 /\ Pow2(CeilLog2(n)) = n

\* all of the configured set has been added, and the set is not empty
AllProvenAdded == toProve # {} /\ \A i \in toProve : i < NumLeaves

\* some index of the configured set has been added
SomeProvenAdded == \E i \in toProve : i < NumLeaves

\* M(h, j): node j at height h of the padded tree over the values added so far
RECURSIVE RefNode(_, _)
RefNode(h, j) ==
    IF h = 0 THEN added[j + 1]
    ELSE HasherHash(RefNode(h - 1, 2 * j),
                    IF (2 * j + 1) * Pow2(h - 1) < NumLeaves
                    THEN RefNode(h - 1, 2 * j + 1)
                    ELSE padding)

\* root hashed k times with the padding value on the right
RECURSIVE PadUp(_, _)
PadUp(root, k) == IF k <= 0 THEN root ELSE PadUp(HasherHash(root, padding), k - 1)

Accepted == [ok |-> TRUE, err |-> ErrNil]

\* ------------------------------------------------------------------ claims
\* C1: round trip with value-passthrough leaves and minHeight 0: when every
\* index of a non-empty set S has been added, the pair returned by RootAndProof
\* validates against the leaves at S with (true, nil).
C1_RoundTrip ==
    (lastOp = "ValidateProof" /\ ~sequential /\ minHeight = 0 /\ AllProvenAdded)
        => vres = Accepted

C1_Witness ==
    /\ lastOp = "ValidateProof" /\ ~sequential /\ minHeight = 0 /\ AllProvenAdded
    /\ Cardinality(toProve) >= 2 /\ NumLeaves = 3 /\ Len(ret.proof) >= 2
    /\ vres = Accepted

\* C2: with minHeight 0 and passthrough leaves the returned root is M(H, 0) with
\* H = ceil(log2 n), whatever calls were made before; a single leaf is its own root.
C2_RootReference ==
    (ret.called /\ ~sequential /\ minHeight = 0)
        => /\ ret.root = RefNode(CeilLog2(NumLeaves), 0)
           /\ (NumLeaves = 1 => ret.root = added[1])

C2_Witness ==
    /\ ret.called /\ ~sequential /\ minHeight = 0 /\ NumLeaves = 3
    /\ ret.root = HasherHash(HasherHash(added[1], added[2]), HasherHash(added[3], padding))

\* C3: at every point of a build the returned pair validates against the proven
\* leaves added so far, provided at least one index of S has been added; indices
\* of S not yet added do not disturb the proof.
C3_ProofWhileBuilding ==
    (lastOp = "ValidateProof" /\ ~sequential /\ SomeProvenAdded) => vres = Accepted

C3_Witness ==
    /\ lastOp = "ValidateProof" /\ ~sequential /\ SomeProvenAdded
    /\ \E i \in toProve : i >= NumLeaves
    /\ NumLeaves = 3
    /\ vres = Accepted

\* C4: round trip with the sequential-work leaf hasher on both sides.
C4_RoundTripSequential ==
    (lastOp = "ValidateProof" /\ sequential /\ AllProvenAdded) => vres = Accepted

C4_Witness ==
    /\ lastOp = "ValidateProof" /\ sequential /\ AllProvenAdded
    /\ toProve = {1, 2} /\ NumLeaves = 3
    /\ vres = Accepted

RECURSIVE Pads(_)
Pads(k) == IF k <= 0 THEN <<>> ELSE Append(Pads(k - 1), padding)

\* the largest configured index that has been added
MaxProven == CHOOSE i \in toProve : i < NumLeaves /\ \A j \in toProve : j < NumLeaves => j <= i

\* C6: the validator needs no minHeight: for every minHeight the returned pair
\* validates, and the levels added for minHeight are all-zero elements at the
\* end of the proof, one for each padding hash applied to the root.
C6_NoMinHeightNeeded ==
    (lastOp = "ValidateProof" /\ ~sequential /\ AllProvenAdded)
        => /\ vres = Accepted
           /\ LET r0 == RootAndProof(tree, 0)
              IN \E k \in 0 .. minHeight :
                     /\ ret.root = PadUp(r0.root, k)
                     /\ ret.proof = r0.proof \o Pads(k)

C6_Witness ==
    /\ lastOp = "ValidateProof" /\ ~sequential /\ AllProvenAdded
    /\ minHeight >= Len(tree.parkedNodes) + 2
    /\ NumLeaves = 2
    /\ ret.proof[Len(ret.proof)] = padding
    /\ vres = Accepted

\* C7: with natural height h = ceil(log2 n) and minHeight k > h the root is the
\* minHeight-0 root hashed (k - h) times with padding and the proof gets (k - h)
\* padding elements; for k <= h nothing is added.
C7_MinHeightFloor ==
    (ret.called /\ ~sequential)
        => LET h == CeilLog2(NumLeaves)
               r0 == RootAndProof(tree, 0)
           IN /\ ret.root = PadUp(RefNode(h, 0), minHeight - h)
              /\ ret.proof = r0.proof \o Pads(minHeight - h)

C9_BalancedProof ==
    (ret.called /\ ~sequential /\ minHeight = 0 /\ IsPow2(NumLeaves)
        /\ AllProvenAdded /\ Cardinality(toProve) = 1)
        => LET m == CeilLog2(NumLeaves)
               i == MaxProven
           IN /\ Len(ret.proof) = m
              /\ \A h \in 0 .. m - 1 : ret.proof[h + 1] = RefNode(h, Xor1(Shr(i, h)))

C9_Witness ==
    /\ ret.called /\ ~sequential /\ minHeight = 0 /\ NumLeaves = 4
    /\ toProve = {2}
    /\ ret.proof = <<added[4], HasherHash(added[1], added[2])>>

\* the height of the returned root: the natural height plus the padding levels
RootHeight ==
    CeilLog2(NumLeaves)
        + (IF minHeight > Len(tree.parkedNodes) THEN minHeight - Len(tree.parkedNodes) ELSE 0)

\* C10 as stated: a proof cut by its last element yields (false, ErrShortProof).
C10_ShortProofAlwaysError ==
    (lastOp = "ValidateShort" /\ ~sequential /\ SomeProvenAdded)
        => vres = [ok |-> FALSE, err |-> ErrShortProof]

\* C10 amended: a proof cut by its last element never validates; the result is
\* (false, ErrShortProof) when the largest proven index has as many bits as the
\* returned root is high, and (false, nil) otherwise.
C10_ShortProofRejected ==
    (lastOp = "ValidateShort" /\ ~sequential /\ SomeProvenAdded)
        => /\ vres.ok = FALSE
           /\ vres.err = IF Len64(MaxProven) = RootHeight THEN ErrShortProof ELSE ErrNil

C10_Witness ==
    /\ lastOp = "ValidateShort" /\ ~sequential /\ NumLeaves = 4 /\ minHeight = 0
    /\ toProve = {0, 3}
    /\ vres = [ok |-> FALSE, err |-> ErrShortProof]

\* the arguments of the last call validate as they are without the changed part
ProducedValidates ==
    ret.called /\ ValidateProof(ret.root, ProvenLeaves, ret.proof, sequential) = Accepted

\* C11 as stated: a proof that validates still validates, without error, when
\* extra elements are appended to it.
C11_OverLongAccepted ==
    (lastOp = "ValidateLong" /\ ProducedValidates) => vres = Accepted

\* C11 amended: a proof that validates, followed by extra trailing elements, is
\* reported without error but no longer validates: the result is (false, nil).
C11_OverLongNoError ==
    (lastOp = "ValidateLong" /\ ProducedValidates)
        => vres = [ok |-> FALSE, err |-> ErrNil]

C11_Witness ==
    /\ lastOp = "ValidateLong" /\ ProducedValidates
    /\ Len(vin.proof) = Len(ret.proof) + 2
    /\ NumLeaves = 3 /\ Cardinality(toProve) = 2
    /\ vres = [ok |-> FALSE, err |-> ErrNil]

\* C12: one all-zero padding element appended to a proof that validates gives
\* (false, nil): the element is consumed as a further sibling above the root.
C12_PaddingAppended ==
    (lastOp = "ValidateLong" /\ ProducedValidates /\ vin.proof = ret.proof \o <<padding>>)
        => /\ vres = [ok |-> FALSE, err |-> ErrNil]
           /\ ~sequential =>
                ret.root = HasherHash(ret.root, padding)
                    \/ ValidateProof(HasherHash(ret.root, padding), vin.leaves,
                                     vin.proof, sequential) = Accepted

C12_Witness ==
    /\ lastOp = "ValidateLong" /\ ProducedValidates
    /\ vin.proof = ret.proof \o <<padding>>
    /\ NumLeaves = 4 /\ toProve = {0} /\ ~sequential
    /\ vres = [ok |-> FALSE, err |-> ErrNil]

\* C13: from arguments that validate, replacing the root, one supplied leaf
\* value or one proof element by a different value gives (false, nil).
C13_TamperRejected ==
    (lastOp \in {"ValidateOtherRoot", "ValidateOtherLeaf", "ValidateOtherProof"}
        /\ ProducedValidates)
        => vres = [ok |-> FALSE, err |-> ErrNil]

C13_Witness ==
    /\ lastOp = "ValidateOtherProof" /\ ProducedValidates
    /\ sequential /\ NumLeaves = 4 /\ toProve = {1, 2}
    /\ vin.proof[1] # ret.proof[1]
    /\ vres = [ok |-> FALSE, err |-> ErrNil]

\* C14: with an empty leaves map ValidateProof returns (false, ErrNoLeaves) for
\* every root, every proof and both leaf-hashing modes.
C14_NoLeavesRejected ==
    (lastOp = "ValidateArbitrary" /\ DOMAIN vin.leaves = {})
        => vres = [ok |-> FALSE, err |-> ErrNoLeaves]

C14_Witness ==
    /\ lastOp = "ValidateArbitrary" /\ DOMAIN vin.leaves = {}
    /\ sequential /\ Len(vin.proof) = MaxProofLen
    /\ vres = [ok |-> FALSE, err |-> ErrNoLeaves]

\* C15: on every input, in both leaf-hashing modes, ValidateProof returns with
\* an error in {nil, ErrNoLeaves, ErrShortProof}; no access is out of range.
C15_NoPanic ==
    (lastOp = "ValidateArbitrary") => vres.err \in {ErrNil, ErrNoLeaves, ErrShortProof}

\* C16: ValidateProof does not modify its inputs: after a call, whatever the
\* outcome and the leaf-hashing mode, the caller's root, leaves and proof are
\* what they were before the call.
C16_InputsUnchanged ==
    [][(lastOp' = "ValidateArbitrary") => (vin' = vin)]_vars

C16_Witness ==
    /\ lastOp = "ValidateArbitrary" /\ sequential
    /\ DOMAIN vin.leaves = {1, 2} /\ Len(vin.proof) = 3
    /\ vres = [ok |-> FALSE, err |-> ErrNil]

\* a second build: the tree and the leaf nodes after adding `values` in order
RECURSIVE BuildAll(_, _, _, _)
BuildAll(t, seq, values, nodes) ==
    IF values = <<>> THEN [tree |-> t, hashed |-> nodes]
    ELSE BuildAll(TreeAdd(t, seq, Head(values)), seq, Tail(values),
                  Append(nodes, AddLeafNode(t, seq, Head(values))))

\* C17: two sequential-work builds over leaf sequences of length n >= 2 that
\* differ only in the value of leaf 0 differ in the leaf node of every leaf
\* i >= 1 and in the root.
C17_SequentialDependency ==
    (sequential /\ NumLeaves >= 2 /\ lastOp = "RootAndProof")
        => \A other \in LeafValues \ {added[1]} :
               LET alt == BuildAll(NewTreeState(toProve), TRUE,
                                   <<other>> \o Tail(added), <<>>)
               IN /\ \A i \in 2 .. NumLeaves : alt.hashed[i] # hashed[i]
                  /\ RootAndProof(alt.tree, minHeight).root # ret.root

C17_Witness ==
    /\ sequential /\ NumLeaves = 4 /\ lastOp = "RootAndProof"
    /\ hashed[4] # SequentialWorkHash(added[4], <<>>)
    /\ ret.root = HasherHash(HasherHash(hashed[1], hashed[2]), HasherHash(hashed[3], hashed[4]))

\* node j at height h of the tree over the leaf nodes, for complete subtrees
RECURSIVE SeqNode(_, _)
SeqNode(h, j) ==
    IF h = 0 THEN hashed[j + 1]
    ELSE HasherHash(SeqNode(h - 1, 2 * j), SeqNode(h - 1, 2 * j + 1))

\* the left siblings of leaf i's path at the heights >= h where the bit of i is
\* 1, lowest height first, one after the other
RECURSIVE LeafChain(_, _)
LeafChain(i, h) ==
    IF Shr(i, h) = 0 THEN <<>>
    ELSE (IF Shr(i, h) % 2 = 1 THEN SeqNode(h, Shr(i, h) - 1) ELSE <<>>)
             \o LeafChain(i, h + 1)

\* the digest of the sequential-work hasher over the given bytes
SeqDigest(bytes) == <<-3>> \o bytes \o <<-4>>

\* C18: with the sequential-work hasher the node of leaf i is the digest of
\* value_i followed by the nodes parked, just before the Add, at the heights
\* where the bit of i is 1, lowest height first; each of them is the root of the
\* complete subtree left of i's path at that height; leaf 0 has an empty chain.
C18_SequentialLeafHash ==
    [][(lastOp' = "Add" /\ sequential)
          => LET i == NumLeaves
             IN /\ hashed'[i + 1] = SeqDigest(added'[i + 1] \o LeafChain(i, 0))
                /\ \A h \in 0 .. MaxLeaves :
                       IF Shr(i, h) % 2 = 1
                       THEN /\ h < Len(tree.parkedNodes)
                            /\ tree.parkedNodes[h + 1] = SeqNode(h, Shr(i, h) - 1)
                       ELSE h < Len(tree.parkedNodes) => tree.parkedNodes[h + 1] = Nil]_vars

C18_Witness ==
    /\ sequential /\ lastOp = "Add" /\ NumLeaves = 4
    /\ hashed[1] = SeqDigest(added[1])
    /\ hashed[4] = SeqDigest(added[4] \o hashed[3] \o HasherHash(hashed[1], hashed[2]))

\* C19: a tree built with an empty leavesToProve set does no proof
\* bookkeeping: for every minHeight Add never appends to the recorded proof and
\* RootAndProof returns an empty proof.
C19_NoProofBookkeeping ==
    (toProve = {}) => /\ tree.proof = <<>>
                      /\ ret.called => ret.proof = <<>>

\* the union of all indices given to the Builder
GivenIndices == UNION {calls[k] : k \in DOMAIN calls}

\* C20: after any sequence of WithLeafToProve and WithLeavesToProve calls Build
\* gives a tree whose leavesToProve is the strictly increasing sequence of the
\* union of all indices given, and nil when no index was given.
C20_BuilderLeavesToProve ==
    (lastOp = "Build")
        => LET l == tree.leavesToProve
           IN /\ {l[k] : k \in DOMAIN l} = GivenIndices
              /\ \A k \in 1 .. Len(l) - 1 : l[k] < l[k + 1]
              /\ tree.leavesToProveNil <=> (GivenIndices = {})

C20_Witness ==
    /\ lastOp = "Build"
    /\ calls = <<{1}, {0, 2}, {1}>>
    /\ tree.leavesToProve = <<0, 1, 2>>
    /\ ~tree.leavesToProveNil

\* the digest a call made alone, on a fresh context, returns for the same arguments
HashAlone(seq, chunks) ==
    IF seq THEN SequentialWorkHash(Head(chunks), Tail(chunks))
    ELSE HasherHash(chunks[1], chunks[2])

\* C21: with several goroutines calling Hash on one shared Sha256() or
\* SequentialWorkHasher(), no context is held by two calls in flight, no held
\* context lies in the pool, every pooled context is reset, and every returned
\* digest is the digest of the call's own arguments.
C21_SharedHasherSafe ==
    /\ \A g1 \in Goroutines : \A g2 \in Goroutines :
          (g1 # g2 /\ InFlight(g1) /\ InFlight(g2)) => goroutines[g1].h # goroutines[g2].h
    /\ Held \cap pool = {}
    /\ \A c \in pool : ctx[c] = <<>>
    /\ \A g \in Goroutines :
          goroutines[g].pc \in {"Reset", "Put"}
              => goroutines[g].digest = HashAlone(sequential, goroutines[g].chunks)

\* one call has returned and another call has its digest from the very
\* context the first one used, about to reset it
C21_Witness ==
    \E g1 \in Goroutines : \E g2 \in Goroutines :
        /\ g1 # g2
        /\ goroutines[g1].pc = "returned"
        /\ goroutines[g2].pc = "Reset"
        /\ goroutines[g2].h = goroutines[g1].h
        /\ goroutines[g2].digest = HashAlone(sequential, goroutines[g2].chunks)


\* C22: on a cache created over an empty directory, however Append, ReadAt and
\* Len calls on the layers are interleaved, ReadAt(layer, i) returns the i-th
\* record appended to the layer for every i below the number m of Appends to
\* it, Len(layer) is m, and the calls made return accordingly.
C22_CacheRoundTrip ==
    ~log.reopened =>
        /\ \A layer \in Levels :
              /\ LenResult(disk, layer) = Len(log.appended[layer])
              /\ \A i \in 0 .. Len(log.appended[layer]) - 1 :
                    ReadAtResult(disk, layer, i) =
                        [data |-> log.appended[layer][i + 1], err |-> ErrNil]
        /\ (cret.op = "Len") => (cret.err = ErrNil /\ cret.n = Len(log.appended[cret.layer]))
        /\ (cret.op = "ReadAt" /\ cret.index < Len(log.appended[cret.layer]))
               => (cret.err = ErrNil /\ cret.data = log.appended[cret.layer][cret.index + 1])

\* an Append went to a layer after a ReadAt of its first record, with records
\* on the other layer as well, and the layer is then read at its last record
C22_Witness ==
    /\ ~log.reopened
    /\ log.afterRead
    /\ Len(log.appended[0]) = MaxRecords
    /\ Len(log.appended[1]) >= 1
    /\ log.appended[0][1] # log.appended[0][MaxRecords]
    /\ cret.op = "ReadAt" /\ cret.layer = 0 /\ cret.index = MaxRecords - 1
    /\ cret.data = log.appended[0][MaxRecords]

\* bit h of k
Bit(k, h) == Shr(k, h) % 2 = 1

\* the parking slot at height h holds a node
Occupied(t, h) == h < Len(t.parkedNodes) /\ t.parkedNodes[h + 1] # Nil

\* the heights of the parking slots
Heights(t) == 0 .. Len(t.parkedNodes) - 1

\* C23: after k Adds, with RootAndProof calls anywhere between them,
\* currentLeaf is k, the slot at height h is occupied iff bit h of k is 1 and
\* the number of slots is the bit length of k (so the topmost slot is occupied
\* and at most floor(log2 k)+1 nodes are kept); a slot is emptied only by an
\* Add whose carry reaches it, i.e. the Add that delivers its right sibling.
C23_BinaryCounter ==
    /\ [](/\ tree.currentLeaf = Len(added)
          /\ Len(tree.parkedNodes) = Len64(Len(added))
          /\ \A h \in Heights(tree) : Occupied(tree, h) <=> Bit(Len(added), h)
          /\ Cardinality({h \in Heights(tree) : Occupied(tree, h)}) <= Len64(Len(added))
          /\ (Len(added) >= 1) => Occupied(tree, Len(tree.parkedNodes) - 1))
    /\ [][\A h \in Heights(tree) :
             (Occupied(tree, h) /\ ~Occupied(tree', h))
                 => /\ lastOp' = "Add"
                    /\ Len(added') = Len(added) + 1
                    /\ \A j \in 0 .. h : Bit(Len(added), j)]_vars

\* four leaves were added: the fourth emptied the slots at heights 0 and 1
C23_Witness ==
    /\ Len(added) = 4
    /\ lastOp = "Add"
    /\ tree.parkedNodes[1] = Nil /\ tree.parkedNodes[2] = Nil /\ tree.parkedNodes[3] # Nil

\* the root of the complete subtree of height h over the leaf nodes start,
\* start+1, ..., left child hashed before right child
RECURSIVE CompleteNode(_, _)
CompleteNode(h, start) ==
    IF h = 0 THEN hashed[start + 1]
    ELSE HasherHash(CompleteNode(h - 1, start), CompleteNode(h - 1, start + Pow2(h - 1)))

\* (k >> (h+1)) << (h+1)
SlotStart(k, h) == Shr(k, h + 1) * Pow2(h + 1)

\* the leaf indices below the slot at height h after k Adds
SlotCover(k, h) == SlotStart(k, h) .. SlotStart(k, h) + Pow2(h) - 1

\* C24: after k Adds an occupied slot at height h holds the root of the
\* complete subtree over the 2^h leaves from (k >> (h+1)) << (h+1) on; the
\* occupied slots cover the leaves 0..k-1 exactly once, higher slots covering
\* lower indices.
C24_ParkedContent ==
    LET k == Len(added)
        occ == {h \in Heights(tree) : Occupied(tree, h)}
    IN /\ \A h \in occ : tree.parkedNodes[h + 1] = CompleteNode(h, SlotStart(k, h))
       /\ UNION {SlotCover(k, h) : h \in occ} = 0 .. k - 1
       /\ \A h1 \in occ : \A h2 \in occ :
             h1 < h2 => \A i \in SlotCover(k, h1) : \A j \in SlotCover(k, h2) : j < i

\* three leaves, not all equal: a pair at height 1 and a single leaf at height 0
C24_Witness ==
    /\ Len(added) = 3
    /\ added[1] # added[2]
    /\ Occupied(tree, 0) /\ Occupied(tree, 1)
    /\ tree.parkedNodes[2] = HasherHash(added[1], added[2])
    /\ tree.parkedNodes[1] = added[3]

\* C25: after k Adds the flag of an occupied slot is true iff a leaf below the
\* slot is to be proven, the flag of an empty slot is false, and the
\* leavesToProve queue is the configured indices >= k in increasing order.
C25_FlagInvariant ==
    LET k == Len(added)
    IN /\ Len(tree.onProvingPath) = Len(tree.parkedNodes)
       /\ \A h \in Heights(tree) :
             tree.onProvingPath[h + 1] <=>
                 (Occupied(tree, h) /\ SlotCover(k, h) \cap toProve # {})
       /\ tree.leavesToProve = SortedKeys({i \in toProve : i >= k})

\* three leaves with 1 and 3 to prove: the pair is flagged, the single leaf is
\* not, and index 3 is still queued
C25_Witness ==
    /\ Len(added) = 3
    /\ toProve = {1, 3}
    /\ tree.onProvingPath = <<FALSE, TRUE>>
    /\ tree.leavesToProve = <<3>>

\* node j at height h of the padded tree: the padding value when no leaf is below it
NodeValue(h, j) == IF j * Pow2(h) >= NumLeaves THEN padding ELSE RefNode(h, j)

\* node j at height h is a proven leaf or an ancestor of one
OnPath(h, j) == \E i \in toProve : i < NumLeaves /\ Shr(i, h) = j

\* what a validator consumes to compute node j at height h from the proven
\* leaves below it: the left subtree first, then the right one, a subtree
\* without proven leaves contributing its root
RECURSIVE ProofFor(_, _)
ProofFor(h, j) ==
    IF h = 0 THEN <<>>
    ELSE LET l == 2 * j
             r == 2 * j + 1
         IN IF OnPath(h - 1, l) /\ OnPath(h - 1, r)
            THEN ProofFor(h - 1, l) \o ProofFor(h - 1, r)
            ELSE IF OnPath(h - 1, l)
            THEN Append(ProofFor(h - 1, l), NodeValue(h - 1, r))
            ELSE Append(ProofFor(h - 1, r), NodeValue(h - 1, l))

\* the nodes of the padded tree of height H off the proving paths whose sibling is on one
OffPathSiblings(H) ==
    {hj \in UNION {{<<h, j>> : j \in 0 .. Pow2(H - h) - 1} : h \in 0 .. H - 1} :
        ~OnPath(hj[1], hj[2]) /\ OnPath(hj[1], Xor1(hj[2]))}

\* C26: with passthrough leaves, minHeight 0 and a non-empty set to prove all
\* of which is added, the proof returned after n Adds is the values of the
\* nodes of the padded tree of height ceil(log2 n) that are off the proving
\* paths but whose sibling is on one, once each and nothing else, in the order
\* the validator consumes them.
C26_ProofContent ==
    (ret.called /\ ~sequential /\ minHeight = 0 /\ AllProvenAdded)
        => /\ ret.proof = ProofFor(CeilLog2(NumLeaves), 0)
           /\ Len(ret.proof) = Cardinality(OffPathSiblings(CeilLog2(NumLeaves)))

\* three leaves with 0 and 2 to prove: the proof is leaf 1, then the padding
\* that stands for the missing leaf 3
C26_Witness ==
    /\ ret.called /\ ~sequential /\ minHeight = 0
    /\ toProve = {0, 2} /\ NumLeaves = 3
    /\ added[2] # padding
    /\ ret.proof = <<added[2], padding>>

\* the innermost calcRoot call stands at the case of the sibling subtree
AtSiblingCase ==
    /\ frames # <<>> /\ ~retval.set
    /\ Top.height < Top.maxHeight
    /\ ~(Len(rest.proof) = 0 /\ Len(rest.indices) = 0)
    /\ NextIsSibling(rest.indices, Top.height, Top.curIndex)

\* the nested call of the sibling case has returned a root to combine
SiblingReturned == frames # <<>> /\ retval.set /\ retval.err = ErrNil

\* C27: whenever calcRoot takes the sibling-subtree case, and when the nested
\* call returns, the current index is even: the walked node is the left
\* child, so Hash(current, sibling) without a parity test combines the
\* children as a test of the parity would, for every leaves map.
C27_SiblingIsRightChild ==
    /\ AtSiblingCase => Top.curIndex % 2 = 0
    /\ SiblingReturned =>
          /\ Top.curIndex % 2 = 0
          /\ SiblingChildren(Top.curIndex, Top.curNode, retval.node) =
                 SiblingChildrenChecked(Top.curIndex, Top.curNode, retval.node)

\* the subtree of a later index was computed as the sibling of a node at
\* height 1, and it differs from that node
C27_Witness ==
    /\ SiblingReturned
    /\ Len(frames) = 1
    /\ Top.height = 1
    /\ retval.node # Top.curNode

\* the largest index of the leaves map
LargestIndex == CHOOSE i \in DOMAIN vin.leaves : \A j \in DOMAIN vin.leaves : j <= i

\* what is left to do in a ValidateProof call; before the call the indices and
\* the proof are the caller's
Measure ==
    LET indices == IF vres = NoRes /\ frames = <<>> /\ ~retval.set
                   THEN Cardinality(DOMAIN vin.leaves) ELSE Len(rest.indices)
        prf == IF vres = NoRes /\ frames = <<>> /\ ~retval.set
               THEN Len(vin.proof) ELSE Len(rest.proof)
    IN 3 * indices + prf + 2 * Len(frames)
           + (IF retval.set THEN 1 ELSE 0) + (IF vres = NoRes THEN 1 ELSE 0)

\* C28: ValidateProof returns on every input, although the outermost calcRoot
\* call is bounded by 2^64-1 only: every step lowers a measure made of the
\* remaining indices, the remaining proof and the calls in progress; every
\* turn of the loop returns, uses up a proof node or takes an index for a
\* nested call; a nested call is bounded by the height its caller stands at,
\* which is below the caller's bound, below the bit length of the largest
\* index and at most 63; the nesting depth is at most that bit length plus one.
C28_Terminates ==
    /\ <>(vres # NoRes)
    /\ [][Measure' < Measure]_vars
    /\ [][(frames # <<>> /\ ~retval.set)
             => \/ Len(frames') < Len(frames)
                \/ Len(rest'.proof) < Len(rest.proof)
                \/ Len(rest'.indices) < Len(rest.indices)]_vars
    /\ [](frames # <<>> =>
             /\ frames[1].maxHeight = MaxUint64
             /\ \A i \in 2 .. Len(frames) :
                   /\ frames[i].maxHeight = frames[i - 1].height
                   /\ frames[i].maxHeight < frames[i - 1].maxHeight
                   /\ frames[i].maxHeight < Len64(LargestIndex)
                   /\ frames[i].maxHeight <= 63
             /\ Len(frames) <= Len64(LargestIndex) + 1)

\* three calls in progress, as many as the bit length of the largest index
\* plus one allows
C28_Witness ==
    /\ Len(frames) = 3
    /\ Len(frames) = Len64(LargestIndex) + 1
    /\ frames[1].maxHeight = MaxUint64
    /\ frames[3].maxHeight = 0

\* the stepwise ValidateProof returns what ValidateProof returns
StepwiseAgrees ==
    (lastOp = "ValidateProof") => vres = ValidateProof(vin.root, vin.leaves, vin.proof, FALSE)

\* C29: the linked-layer Tree and the slice-based Tree, built alike and fed
\* the same Adds, return the same root and proof at every RootAndProof call
\* that follows at least one Add, and after every Add layer h of the one and
\* slot h of the other hold the same node and flag, with the same counter,
\* queue and recorded proof.
C29_LinkedEqualsSlices ==
    (Len(added) >= 1) =>
        /\ ret = lret
        /\ Len(linked.layers) = Len(tree.parkedNodes)
        /\ \A h \in Heights(tree) :
              /\ linked.layers[h + 1].parking = tree.parkedNodes[h + 1]
              /\ linked.layers[h + 1].onProvingPath = tree.onProvingPath[h + 1]
        /\ linked.currentLeaf = tree.currentLeaf
        /\ linked.leavesToProve = tree.leavesToProve
        /\ linked.proof = tree.proof

\* a balanced tree of two leaves raised to the minimum height by both
\* implementations, with a proof of more than the padding
C29_Witness ==
    /\ Len(added) = 2
    /\ toProve = {1}
    /\ minHeight = MaxMinHeight
    /\ lret.called
    /\ Len(lret.proof) = MaxMinHeight - 1
    /\ lret.root = ret.root

\* C30: an Append(layer, rec) on a layer that holds m records leaves the
\* records 0..m-1 as they are and results in Len(layer) = m+1 and
\* ReadAt(layer, m) = rec, in every state of the cache, also right after
\* NewFileLayerCache over a directory that already holds the layer's file.
C30_AppendOnly ==
    [][(cret'.op = "Append") =>
          LET layer == cret'.layer
              m == LenResult(disk, layer)
          IN /\ LenResult(disk', layer) = m + 1
             /\ ReadAtResult(disk', layer, m) = [data |-> cret'.data, err |-> ErrNil]
             /\ \A i \in 0 .. m - 1 :
                   ReadAtResult(disk', layer, i) = ReadAtResult(disk, layer, i)]_vars


====
